---- MODULE Spec2Model ----
(***************************************************************************)
(* A model of emfdscore's moral-analysis layer:                            *)
(*   src/emfdscore/moral_analysis.py   MoralFrameworkAnalyzer              *)
(*   src/emfdscore/text_extraction.py  TextExtractionManager, extractors   *)
(* The scorer (emfdscore/scoring.py, score_docs) is imported by            *)
(* moral_analysis.py but its source is not part of src/; it is modelled    *)
(* from section 4.2/4.3 of the specification.                              *)
(*                                                                         *)
(* Numbers.  Python floats are modelled as exact rationals [n, d], d > 0,  *)
(* compared by cross-multiplication.  A threshold such as 0.15 is the      *)
(* rational 150/1000.                                                      *)
(* Text.  A str is a sequence over Chars: " " whitespace, "m" a letter     *)
(* that alone spells a lexicon word, "n" a letter that does not, "q" the   *)
(* double quote (punctuation), "u" a lone surrogate (a code point that     *)
(* UTF-8 cannot encode).                                                   *)
(***************************************************************************)
EXTENDS Integers, Sequences, FiniteSets, TLC

VARIABLES
    extractors,   \* TextExtractionManager.extractors, in registration order
    libs,         \* module flags PDF_AVAILABLE, PYPDF2_AVAILABLE, OCR_AVAILABLE
    tmpfiles,     \* number of temporary CSV files of analyze_text on disk
    last          \* the call that returned last: its arguments and outcome

vars == <<extractors, libs, tmpfiles, last>>

(***************************************************************************)
(* Bounds                                                                  *)
(***************************************************************************)
MaxScore == 160      \* strength scores range over 0 .. MaxScore thousandths
MaxRatio == 110      \* density ratios range over 0 .. MaxRatio hundredths

(***************************************************************************)
(* Rationals                                                               *)
(***************************************************************************)
Q(num, den) == [n |-> num, d |-> den]
Ge(a, b) == a.n * b.d >= b.n * a.d
Gt(a, b) == a.n * b.d > b.n * a.d
Lt(a, b) == a.n * b.d < b.n * a.d
QEq(a, b) == a.n * b.d = b.n * a.d
Zero == Q(0, 1)

NoKeys == [k \in {} |-> 0]     \* the empty dict {}

\* F applied to the value of x, x being evaluated once (an assignment
\* `v = x` followed by uses of v)
Eval(F(_), x) == CHOOSE r \in {F(v) : v \in {x}} : TRUE

(***************************************************************************)
(* _categorize_score and _interpret_moral_density                          *)
(***************************************************************************)
\* mutant: the 0.05 comparison written with > instead of >=
categorize_score_strict(score) ==
    IF Ge(score, Q(15, 100)) THEN "very_high"
    ELSE IF Ge(score, Q(10, 100)) THEN "high"
    ELSE IF Gt(score, Q(5, 100)) THEN "moderate"
    ELSE IF Ge(score, Q(1, 100)) THEN "low"
    ELSE "very_low"

\* mutant: the 0.5 and 0.2 branches tested in the wrong order
interpret_moral_density_swapped(ratio) ==
    IF Ge(ratio, Q(10, 10)) THEN "very_high_moral_content"
    ELSE IF Ge(ratio, Q(2, 10)) THEN "moderate_moral_content"
    ELSE IF Ge(ratio, Q(5, 10)) THEN "high_moral_content"
    ELSE IF Ge(ratio, Q(1, 10)) THEN "low_moral_content"
    ELSE "very_low_moral_content"

categorize_score(score) ==
    IF Ge(score, Q(15, 100)) THEN "very_high"
    ELSE IF Ge(score, Q(10, 100)) THEN "high"
    ELSE IF Ge(score, Q(5, 100)) THEN "moderate"
    ELSE IF Ge(score, Q(1, 100)) THEN "low"
    ELSE "very_low"

interpret_moral_density(ratio) ==
    IF Ge(ratio, Q(10, 10)) THEN "very_high_moral_content"
    ELSE IF Ge(ratio, Q(5, 10)) THEN "high_moral_content"
    ELSE IF Ge(ratio, Q(2, 10)) THEN "moderate_moral_content"
    ELSE IF Ge(ratio, Q(1, 10)) THEN "low_moral_content"
    ELSE "very_low_moral_content"

(***************************************************************************)
(* get_moral_summary                                                       *)
(***************************************************************************)
Foundations == <<"care", "fairness", "loyalty", "authority", "sanctity">>
FoundationSet == {Foundations[i] : i \in 1..Len(Foundations)}

ProbKey(f) == f \o "_p"
SentKey(f) == f \o "_sent"
RatioKey == "moral_nonmoral_ratio"

MfdFoundations ==
    <<"care.virtue", "fairness.virtue", "loyalty.virtue",
      "authority.virtue", "sanctity.virtue",
      "care.vice", "fairness.vice", "loyalty.vice",
      "authority.vice", "sanctity.vice">>
MfdFoundationSet == {MfdFoundations[i] : i \in 1..Len(MfdFoundations)}

\* prob_scores / sent_scores: the loop of lines 205-212
prob_scores(scores) ==
    [f \in {g \in FoundationSet : ProbKey(g) \in DOMAIN scores} |-> scores[ProbKey(f)]]
sent_scores(scores) ==
    [f \in {g \in FoundationSet : SentKey(g) \in DOMAIN scores} |-> scores[SentKey(f)]]

\* dict.items() iterates in insertion order: the order of `foundations`
items(d) == SelectSeq(Foundations, LAMBDA f : f \in DOMAIN d)

\* max(iterable, key=...): the first item whose key no later item exceeds
RECURSIVE max_from(_, _, _, _)
max_from(d, its, i, best) ==
    IF i > Len(its) THEN best
    ELSE max_from(d, its, i + 1, IF Gt(d[its[i]], d[best]) THEN its[i] ELSE best)

\* mutant: >= keeps the last of several equal maxima
RECURSIVE max_from_last(_, _, _, _)
max_from_last(d, its, i, best) ==
    IF i > Len(its) THEN best
    ELSE max_from_last(d, its, i + 1, IF Ge(d[its[i]], d[best]) THEN its[i] ELSE best)

max_item_last(d) == max_from_last(d, items(d), 2, items(d)[1])

max_item(d) == max_from(d, items(d), 2, items(d)[1])

\* mutant: the direction test written with >= (a sentiment of 0 is positive)
sentiment_direction_ge(v) ==
    IF Ge(v, Zero) THEN "positive" ELSE IF Lt(v, Zero) THEN "negative" ELSE "neutral"

sentiment_direction(v) ==
    IF Gt(v, Zero) THEN "positive" ELSE IF Lt(v, Zero) THEN "negative" ELSE "neutral"

foundation_summary(ps, ss, f) ==
    (IF f \in DOMAIN ps
        THEN [probability |-> ps[f], strength |-> categorize_score(ps[f])]
        ELSE NoKeys)
    @@
    (IF f \in DOMAIN ss
        THEN [sentiment |-> ss[f], sentiment_direction |-> sentiment_direction(ss[f])]
        ELSE NoKeys)

moral_density(scores) ==
    IF RatioKey \in DOMAIN scores
        THEN [moral_density |->
                [ratio |-> scores[RatioKey],
                 interpretation |-> interpret_moral_density(scores[RatioKey])]]
        ELSE NoKeys

\* mutant: a summary that reports 0 for an absent probability key
emfd_summary_defaulting(scores) ==
    LET ps == [f \in FoundationSet |->
                  IF ProbKey(f) \in DOMAIN scores THEN scores[ProbKey(f)] ELSE Zero]
        ss == sent_scores(scores)
    IN  [moral_foundations |-> [f \in FoundationSet |-> foundation_summary(ps, ss, f)]]
        @@
        [dominant_foundation |->
            [name |-> max_item(ps), probability |-> ps[max_item(ps)]]]
        @@
        moral_density(scores)

emfd_summary(scores) ==
    LET ps == prob_scores(scores)
        ss == sent_scores(scores)
        shown == {f \in FoundationSet : DOMAIN foundation_summary(ps, ss, f) # {}}
    IN  [moral_foundations |-> [f \in shown |-> foundation_summary(ps, ss, f)]]
        @@
        (IF DOMAIN ps # {}
            THEN [dominant_foundation |->
                    [name |-> max_item(ps), probability |-> ps[max_item(ps)]]]
            ELSE NoKeys)
        @@
        moral_density(scores)

mfd_summary(scores) ==
    [moral_foundations |->
        [f \in {g \in MfdFoundationSet : g \in DOMAIN scores} |->
            [score |-> scores[f], strength |-> categorize_score(scores[f])]]]
    @@
    moral_density(scores)

get_moral_summary(scores, dict_type) ==
    [dictionary_used |-> dict_type]
    @@
    (IF dict_type = "emfd" THEN emfd_summary(scores)
     ELSE IF dict_type \in {"mfd", "mfd2"} THEN mfd_summary(scores)
     ELSE [moral_foundations |-> NoKeys])

(***************************************************************************)
(* State after construction (MoralFrameworkAnalyzer.__init__), and calls   *)
(***************************************************************************)
Idle == [op |-> "idle"]

AllLibs == [pdf |-> TRUE, pypdf2 |-> TRUE, ocr |-> TRUE]

TxtExtractor == [kind |-> "txt"]
\* PDFExtractor.__init__: use_ocr_fallback and OCR_AVAILABLE
PDFExtractor(l, use_ocr_fallback) ==
    [kind |-> "pdf", use_ocr_fallback |-> (use_ocr_fallback /\ l.ocr)]

\* register_default_extractors: PDFExtractor() raises ImportError when
\* neither pdfplumber nor PyPDF2 is importable, and is then not registered
register_default_extractors(l) ==
    <<TxtExtractor>> \o (IF l.pdf \/ l.pypdf2 THEN <<PDFExtractor(l, TRUE)>> ELSE <<>>)

Construct(l) ==
    /\ libs = l
    /\ extractors = register_default_extractors(l)
    /\ tmpfiles = 0
    /\ last = Idle

\* the caller takes the result and goes on to its next call
Return ==
    /\ last.op # "idle"
    /\ last' = Idle
    /\ UNCHANGED <<extractors, libs, tmpfiles>>

(***************************************************************************)
(* Calls of the label functions over a grid of scores                      *)
(***************************************************************************)
CategorizeScore ==
    /\ last.op = "idle"
    /\ \E s \in 0..MaxScore :
          last' = [op |-> "categorize_score", score |-> Q(s, 1000),
                   label |-> categorize_score(Q(s, 1000))]
    /\ UNCHANGED <<extractors, libs, tmpfiles>>

InterpretMoralDensity ==
    /\ last.op = "idle"
    /\ \E r \in 0..MaxRatio :
          last' = [op |-> "interpret_moral_density", ratio |-> Q(r, 100),
                   label |-> interpret_moral_density(Q(r, 100))]
    /\ UNCHANGED <<extractors, libs, tmpfiles>>

GetMoralSummaryOn(inputs, dict_types) ==
    /\ last.op = "idle"
    /\ \E scores \in inputs, dict_type \in dict_types :
          last' = [op |-> "get_moral_summary", scores |-> scores,
                   dict_type |-> dict_type, outcome |-> "return",
                   summary |-> get_moral_summary(scores, dict_type)]
    /\ UNCHANGED <<extractors, libs, tmpfiles>>

\* score records for the calls: partial maps from the score keys to values
PartialFns(D, V) == UNION {[S -> V] : S \in SUBSET D}

EmfdRecord(p, s, r) ==
    [k \in {ProbKey(f) : f \in DOMAIN p} \cup {SentKey(f) : f \in DOMAIN s}
           \cup {RatioKey : x \in r} |->
        IF k = RatioKey THEN CHOOSE x \in r : TRUE
        ELSE IF \E f \in DOMAIN p : ProbKey(f) = k
            THEN p[CHOOSE f \in DOMAIN p : ProbKey(f) = k]
            ELSE s[CHOOSE f \in DOMAIN s : SentKey(f) = k]]

MfdValue(k) == IF k \in {"care.virtue", "loyalty.vice", "sanctity.vice"}
                  THEN Q(12, 100) ELSE Q(3, 100)
MfdRecord(present, r) ==
    [k \in present \cup {RatioKey : x \in r} |->
        IF k = RatioKey THEN CHOOSE x \in r : TRUE ELSE MfdValue(k)]

PVals == {Q(2, 100), Q(12, 100)}
SVals == {Q(-1, 10), Zero, Q(1, 10)}
RChoices == {{}, {Zero}, {Q(3, 10)}}

FullP == [f \in FoundationSet |-> IF f = "loyalty" THEN Q(12, 100) ELSE Q(2, 100)]
FullS == [f \in FoundationSet |-> IF f = "care" THEN Q(-1, 10) ELSE Zero]
PFew == {NoKeys, FullP, [f \in {"fairness", "sanctity"} |-> Q(12, 100)]}
SFew == {NoKeys, FullS, [f \in {"fairness"} |-> Q(1, 10)]}

EmfdInputs ==
    {EmfdRecord(p, s, r) : p \in PartialFns(FoundationSet, PVals), s \in SFew, r \in RChoices}
    \cup
    {EmfdRecord(p, s, {Zero}) : p \in PFew, s \in PartialFns(FoundationSet, SVals)}

MfdInputs == {MfdRecord(present, r) : present \in SUBSET MfdFoundationSet, r \in RChoices}

MixedInputs == {NoKeys, EmfdRecord(FullP, FullS, {Q(3, 10)}),
                MfdRecord(MfdFoundationSet, {Q(3, 10)})}

DensityInputs ==
    {[k \in DOMAIN b \cup {RatioKey} |-> IF k = RatioKey THEN Q(r, 100) ELSE b[k]] :
        b \in MixedInputs, r \in 0..MaxRatio}

GetMoralSummaryDensity == GetMoralSummaryOn(DensityInputs, {"emfd", "mfd", "mfd2"})
GetMoralSummaryEmfd == GetMoralSummaryOn(EmfdInputs, {"emfd"})
GetMoralSummaryMfd == GetMoralSummaryOn(MfdInputs, {"mfd", "mfd2"})
GetMoralSummaryMixed == GetMoralSummaryOn(MixedInputs, {"emfd", "mfd", "mfd2", "liwc"})

InitLabels == Construct(AllLibs)
NextBands ==
    \/ CategorizeScore
    \/ InterpretMoralDensity
    \/ GetMoralSummaryDensity
    \/ Return
SpecBands == InitLabels /\ [][NextBands]_vars

NextSummary ==
    \/ GetMoralSummaryEmfd
    \/ GetMoralSummaryMfd
    \/ GetMoralSummaryMixed
    \/ Return
SpecSummary == InitLabels /\ [][NextSummary]_vars

(***************************************************************************)
(* Properties of the label functions and of the summary                    *)
(***************************************************************************)
StrengthRank(label) ==
    CASE label = "very_low" -> 0 [] label = "low" -> 1 [] label = "moderate" -> 2
      [] label = "high" -> 3 [] label = "very_high" -> 4

DensityRank(label) ==
    CASE label = "very_low_moral_content" -> 0 [] label = "low_moral_content" -> 1
      [] label = "moderate_moral_content" -> 2 [] label = "high_moral_content" -> 3
      [] label = "very_high_moral_content" -> 4

\* label is the band of n/d in the threshold table of the specification
InStrengthBand(x, label) ==
    /\ label = "very_high" <=> 100 * x.n >= 15 * x.d
    /\ label = "high"      <=> (100 * x.n >= 10 * x.d /\ 100 * x.n < 15 * x.d)
    /\ label = "moderate"  <=> (100 * x.n >= 5 * x.d /\ 100 * x.n < 10 * x.d)
    /\ label = "low"       <=> (100 * x.n >= 1 * x.d /\ 100 * x.n < 5 * x.d)
    /\ label = "very_low"  <=> 100 * x.n < 1 * x.d

InDensityBand(x, label) ==
    /\ label = "very_high_moral_content" <=> 10 * x.n >= 10 * x.d
    /\ label = "high_moral_content"      <=> (10 * x.n >= 5 * x.d /\ 10 * x.n < 10 * x.d)
    /\ label = "moderate_moral_content"  <=> (10 * x.n >= 2 * x.d /\ 10 * x.n < 5 * x.d)
    /\ label = "low_moral_content"       <=> (10 * x.n >= 1 * x.d /\ 10 * x.n < 2 * x.d)
    /\ label = "very_low_moral_content"  <=> 10 * x.n < 1 * x.d

\* C4: _categorize_score gives every score in [0, oo) exactly one of the five
\* strength labels, the one of its band (>= 0.15 very_high, >= 0.10 high,
\* >= 0.05 moderate, >= 0.01 low, else very_low; a boundary value belongs to
\* the upper band), and the label never decreases when the score increases.
C4_StrengthBands ==
    last.op = "categorize_score" =>
        /\ InStrengthBand(last.score, last.label)
        /\ \A t \in 0..MaxScore :
              t * last.score.d <= last.score.n * 1000 =>
                  StrengthRank(categorize_score(Q(t, 1000))) <= StrengthRank(last.label)

\* a boundary score: 0.05 is labelled moderate
C4_Witness ==
    /\ last.op = "categorize_score"
    /\ last.score = Q(50, 1000)
    /\ last.label = "moderate"

\* C9: _interpret_moral_density gives every ratio exactly one of the five
\* density labels, the one of its band (>= 1.0, >= 0.5, >= 0.2, >= 0.1, else),
\* monotonically; and the interpretation in a summary is the band of the
\* record's moral_nonmoral_ratio, whatever else the record holds.
C9_DensityBands ==
    /\ last.op = "interpret_moral_density" =>
          /\ InDensityBand(last.ratio, last.label)
          /\ \A t \in 0..MaxRatio :
                t * last.ratio.d <= last.ratio.n * 100 =>
                    DensityRank(interpret_moral_density(Q(t, 100))) <= DensityRank(last.label)
    /\ (last.op = "get_moral_summary" /\ last.dict_type \in {"emfd", "mfd", "mfd2"}
            /\ RatioKey \in DOMAIN last.scores) =>
          /\ "moral_density" \in DOMAIN last.summary
          /\ last.summary.moral_density.ratio = last.scores[RatioKey]
          /\ InDensityBand(last.scores[RatioKey], last.summary.moral_density.interpretation)

\* a summary of a record whose ratio is the boundary 0.5
C9_Witness ==
    /\ last.op = "get_moral_summary"
    /\ RatioKey \in DOMAIN last.scores
    /\ last.scores[RatioKey] = Q(50, 100)
    /\ "care_p" \in DOMAIN last.scores
    /\ last.summary.moral_density.interpretation = "high_moral_content"

FoundationIndex(f) == CHOOSE i \in 1..Len(Foundations) : Foundations[i] = f

\* C5: the dominant foundation of an eMFD summary is a foundation of the
\* record whose {foundation}_p no other {foundation}_p exceeds, the first such
\* in the order care, fairness, loyalty, authority, sanctity; the reported
\* probability is that field; it is reported whenever the record has a
\* {foundation}_p key.
C5_DominantFoundation ==
    (last.op = "get_moral_summary" /\ last.dict_type = "emfd"
        /\ \E f \in FoundationSet : ProbKey(f) \in DOMAIN last.scores) =>
        /\ "dominant_foundation" \in DOMAIN last.summary
        /\ LET dom == last.summary.dominant_foundation
               sc == last.scores
           IN  /\ dom.name \in FoundationSet
               /\ ProbKey(dom.name) \in DOMAIN sc
               /\ dom.probability = sc[ProbKey(dom.name)]
               /\ \A g \in FoundationSet :
                     ProbKey(g) \in DOMAIN sc =>
                         /\ sc[ProbKey(g)].n * dom.probability.d
                                <= dom.probability.n * sc[ProbKey(g)].d
                         /\ (sc[ProbKey(g)].n * dom.probability.d
                                = dom.probability.n * sc[ProbKey(g)].d)
                              => FoundationIndex(dom.name) <= FoundationIndex(g)

\* a tie for the highest probability, between fairness and sanctity
C5_Witness ==
    /\ last.op = "get_moral_summary"
    /\ last.dict_type = "emfd"
    /\ {"care_p", "fairness_p", "sanctity_p"} \subseteq DOMAIN last.scores
    /\ last.scores["care_p"] = Q(2, 100)
    /\ last.scores["fairness_p"] = Q(12, 100)
    /\ last.scores["sanctity_p"] = Q(12, 100)
    /\ last.summary.dominant_foundation.name = "fairness"

RequiredKeys(dict_type) ==
    IF dict_type = "emfd"
        THEN {ProbKey(f) : f \in FoundationSet} \cup {SentKey(f) : f \in FoundationSet}
             \cup {RatioKey}
    ELSE IF dict_type \in {"mfd", "mfd2"} THEN MfdFoundationSet \cup {RatioKey}
    ELSE {}

\* what the summary says of foundation f ({} when it says nothing)
Shown(summary, f) ==
    IF f \in DOMAIN summary.moral_foundations THEN summary.moral_foundations[f] ELSE NoKeys

MaxLen == 3          \* texts have at most MaxLen characters
MaxTmp == 1          \* at most MaxTmp temporary files are left on disk

Chars == {" ", "m", "n", "q", "u"}
Letters == {"m", "n"}

RECURSIVE SeqsUpTo(_, _)
SeqsUpTo(S, n) ==
    IF n = 0 THEN {<<>>}
    ELSE LET shorter == SeqsUpTo(S, n - 1)
         IN  shorter \cup {Append(t, c) : t \in {x \in shorter : Len(x) = n - 1}, c \in S}

Texts == SeqsUpTo(Chars, MaxLen)

\* str.strip(): leading and trailing whitespace removed
RECURSIVE lstrip(_)
lstrip(t) == IF t # <<>> /\ Head(t) = " " THEN lstrip(Tail(t)) ELSE t
RECURSIVE rstrip(_)
rstrip(t) ==
    IF t # <<>> /\ t[Len(t)] = " " THEN rstrip(SubSeq(t, 1, Len(t) - 1)) ELSE t
strip(t) == rstrip(lstrip(t))

\* text.replace('"', '""')
RECURSIVE escape_quotes(_)
escape_quotes(t) ==
    IF t = <<>> THEN <<>>
    ELSE (IF Head(t) = "q" THEN <<"q", "q">> ELSE <<Head(t)>>) \o escape_quotes(Tail(t))

\* f'"{escaped_text}"'
csv_field(t) == <<"q">> \o escape_quotes(t) \o <<"q">>

\* tmp_file.write with encoding='utf-8': a lone surrogate cannot be encoded
encodable(t) == \A i \in 1..Len(t) : t[i] # "u"

\* pd.read_csv(path, header=None) of a file holding one field: the rows of
\* column 0.  A quote opens or closes quoting; inside quotes "" is one quote.
RECURSIVE read_field(_, _, _, _)
read_field(c, i, in_quotes, acc) ==
    IF i > Len(c) THEN acc
    ELSE IF c[i] = "q"
        THEN IF in_quotes /\ i < Len(c) /\ c[i + 1] = "q"
                THEN read_field(c, i + 2, TRUE, Append(acc, "q"))
                ELSE read_field(c, i + 1, ~in_quotes, acc)
        ELSE read_field(c, i + 1, in_quotes, Append(acc, c[i]))

read_csv(c) == IF c = <<>> THEN <<>> ELSE <<read_field(c, 1, FALSE, <<>>)>>

\* str.split(): the maximal runs of non-whitespace characters
RECURSIVE split_from(_, _, _, _)
split_from(t, i, cur, acc) ==
    IF i > Len(t) THEN (IF cur = <<>> THEN acc ELSE Append(acc, cur))
    ELSE IF t[i] = " "
        THEN split_from(t, i + 1, <<>>, IF cur = <<>> THEN acc ELSE Append(acc, cur))
        ELSE split_from(t, i + 1, Append(cur, t[i]), acc)
split(t) == split_from(t, 1, <<>>, <<>>)

(***************************************************************************)
(* The scorer: emfdscore.scoring.score_docs.  Its source is not in src/;   *)
(* this is sections 4.1-4.3 of the specification.  The lexicon holds one   *)
(* word, "m".                                                              *)
(***************************************************************************)
KnownDictTypes == {"emfd", "mfd", "mfd2"}
KnownMethods == {"bow", "wordlist", "gdelt.ngrams", "pat"}
KnownProbMaps == {"all", "single"}

Lexicon == {<<"m">>}
EmfdProb ==
    [f \in FoundationSet |->
        CASE f = "care" -> Q(3, 10) [] f = "authority" -> Q(2, 10) [] OTHER -> Q(1, 10)]
EmfdSent ==
    [f \in FoundationSet |->
        CASE f = "care" -> Q(-2, 10) [] f = "fairness" -> Q(1, 10) [] OTHER -> Zero]
MfdCategory == "care.virtue"

\* 4.2 Tokenizer: punctuation stripped, then split into tokens
tokenize(doc) == split(SelectSeq(doc, LAMBDA c : c \in Letters \cup {" "}))

\* the tokens that the method matches against the lexicon; the lexicon has no
\* entry longer than one token, so n-gram matching matches nothing
matched_tokens(tokens, method) ==
    IF method = "gdelt.ngrams" THEN <<>>
    ELSE SelectSeq(tokens, LAMBDA w : w \in Lexicon)

\* 4.3: (matched tokens) / (unmatched tokens), defined as 0 when the
\* denominator is 0
moral_nonmoral_ratio(n_matched, n_tokens) ==
    IF n_tokens - n_matched = 0 THEN Zero ELSE Q(n_matched, n_tokens - n_matched)

emfd_scores(doc, prob_map, method) ==
    LET tokens == tokenize(doc)
        hits == Len(matched_tokens(tokens, method))
        top == max_item(EmfdProb)
        weight(f) == IF prob_map = "single" /\ f # top THEN Zero
                     ELSE IF method = "wordlist" THEN Q(1, 1)
                     ELSE EmfdProb[f]
        sent(f) == IF prob_map = "single" /\ f # top THEN Zero ELSE EmfdSent[f]
    IN  EmfdRecord([f \in FoundationSet |-> IF hits = 0 THEN Zero ELSE weight(f)],
                   [f \in FoundationSet |-> IF hits = 0 THEN Zero ELSE sent(f)],
                   {moral_nonmoral_ratio(hits, Len(tokens))})

mfd_scores(doc, method) ==
    LET tokens == tokenize(doc)
        hits == Len(matched_tokens(tokens, method))
    IN  [k \in MfdFoundationSet \cup {RatioKey} |->
            IF k = RatioKey THEN moral_nonmoral_ratio(hits, Len(tokens))
            ELSE IF k = MfdCategory /\ hits > 0 THEN Q(1, 1)
            ELSE Zero]

NoError == [type |-> "", msg |-> ""]
Error(type, msg) == [type |-> type, msg |-> msg]

\* one row per document; ConfigurationError for an unknown dictionary,
\* UnsupportedMethodError for an unknown method or mapping
score_docs(csv_data, dict_type, prob_map, score_method, output_metrics, num_docs) ==
    IF dict_type \notin KnownDictTypes
        THEN [outcome |-> "raise", df |-> <<>>,
              error |-> Error("ConfigurationError", "unknown dictionary")]
    ELSE IF score_method \notin KnownMethods
            \/ (dict_type = "emfd" /\ prob_map \notin KnownProbMaps)
        THEN [outcome |-> "raise", df |-> <<>>,
              error |-> Error("UnsupportedMethodError", "unknown method or mapping")]
    ELSE [outcome |-> "return", error |-> NoError,
          df |-> [i \in 1..num_docs |->
                    IF dict_type = "emfd"
                        THEN emfd_scores(csv_data[i], prob_map, score_method)
                        ELSE mfd_scores(csv_data[i], score_method)]]

(***************************************************************************)
(* analyze_text                                                            *)
(***************************************************************************)
ScorerCall(csv_data, dict_type, prob_map, score_method, output_metrics, num_docs) ==
    [csv_data |-> csv_data, dict_type |-> dict_type, prob_map |-> prob_map,
     score_method |-> score_method, output_metrics |-> output_metrics,
     num_docs |-> num_docs]

\* mutant: the caller's prob_map and output_metrics reach the scorer for
\* every dictionary
scorer_call_passthrough(csv_data, dict_type, prob_map, score_method, output_metrics) ==
    ScorerCall(csv_data, dict_type, prob_map, score_method, output_metrics, Len(csv_data))

\* lines 116-122: prob_map and output_metrics reach the scorer for emfd only
scorer_call(csv_data, dict_type, prob_map, score_method, output_metrics) ==
    IF dict_type = "emfd"
        THEN ScorerCall(csv_data, dict_type, prob_map, score_method, output_metrics,
                        Len(csv_data))
        ELSE ScorerCall(csv_data, dict_type, "", score_method, "", Len(csv_data))

\* the outcome of a call: what it returned or raised, the temporary files it
\* created and deleted, and the calls of score_docs it made
Outcome(outcome, scores, error, created, deleted, calls) ==
    [outcome |-> outcome, scores |-> scores, error |-> error,
     created |-> created, deleted |-> deleted, score_docs_calls |-> calls]

UnencodableOutcome ==
    Outcome("raise", NoKeys, Error("UnicodeEncodeError", "surrogates not allowed"), 1, 0, <<>>)

\* lines 116-122: the call of score_docs
call_scorer(call) ==
    score_docs(call.csv_data, call.dict_type, call.prob_map, call.score_method,
               call.output_metrics, call.num_docs)

\* mutant: the first row is dropped (the test written as len(df) > 1)
scored_drop(call, r) ==
    IF r.outcome = "raise" THEN Outcome("raise", NoKeys, r.error, 1, 1, <<call>>)
    ELSE IF Len(r.df) > 1 THEN Outcome("return", r.df[1], NoError, 1, 1, <<call>>)
    ELSE Outcome("return", NoKeys, NoError, 1, 1, <<call>>)

\* lines 124-138: the first row as a dict, {} for an empty table; an error of
\* the scorer is raised again; the temporary file is deleted in each case
scored(call, r) ==
    IF r.outcome = "raise" THEN Outcome("raise", NoKeys, r.error, 1, 1, <<call>>)
    ELSE IF Len(r.df) > 0 THEN Outcome("return", r.df[1], NoError, 1, 1, <<call>>)
    ELSE Outcome("return", NoKeys, NoError, 1, 1, <<call>>)

\* lines 102-138, for a text that passed the blank test
analyze_nonblank(text, dict_type, prob_map, score_method, output_metrics) ==
    IF ~encodable(text)
        \* tmp_file.write raises inside the with block, before the try: the
        \* file (delete=False) is closed and stays on disk
        THEN UnencodableOutcome
    ELSE Eval(LAMBDA call : Eval(LAMBDA r : scored(call, r), call_scorer(call)),
              scorer_call(read_csv(csv_field(text)), dict_type, prob_map,
                          score_method, output_metrics))

EmptyInput == Outcome("raise", NoKeys, Error("ValueError", "Input text is empty"), 0, 0, <<>>)

\* mutant: the blank test written as `if not text`
analyze_text_no_strip(text, dict_type, prob_map, score_method, output_metrics) ==
    IF text = <<>> THEN EmptyInput
    ELSE analyze_nonblank(text, dict_type, prob_map, score_method, output_metrics)

analyze_text(text, dict_type, prob_map, score_method, output_metrics) ==
    IF strip(text) = <<>> THEN EmptyInput
    ELSE analyze_nonblank(text, dict_type, prob_map, score_method, output_metrics)

DictTypes == KnownDictTypes \cup {"liwc"}
Methods == KnownMethods \cup {"tfidf"}
ProbMaps == KnownProbMaps
OutputMetrics == {"sentiment", "vice-virtue"}

AnalyzeText ==
    /\ last.op = "idle"
    /\ \E text \in Texts, dict_type \in DictTypes, prob_map \in ProbMaps,
          score_method \in Methods, output_metrics \in OutputMetrics :
          \E r \in {analyze_text(text, dict_type, prob_map, score_method, output_metrics)} :
              /\ tmpfiles + r.created - r.deleted <= MaxTmp
              /\ tmpfiles' = tmpfiles + r.created - r.deleted
              /\ last' = [op |-> "analyze_text", text |-> text, dict_type |-> dict_type,
                          prob_map |-> prob_map, score_method |-> score_method,
                          output_metrics |-> output_metrics] @@ r
    /\ UNCHANGED <<extractors, libs>>

NextText ==
    \/ AnalyzeText
    \/ Return
SpecText == InitLabels /\ [][NextText]_vars

(***************************************************************************)
(* Properties of analyze_text                                              *)
(***************************************************************************)
IsBlank(text) == \A i \in 1..Len(text) : text[i] = " "

\* C3: for every dictionary type, method and mapping, analyze_text of an empty
\* or whitespace-only text fails with the invalid-input error (the code's
\* ValueError "Input text is empty") and returns no score record; the scorer
\* is not called and no temporary file is created.
C3_BlankTextRejected ==
    (last.op = "analyze_text" /\ IsBlank(last.text)) =>
        /\ last.outcome = "raise"
        /\ last.error = [type |-> "ValueError", msg |-> "Input text is empty"]
        /\ DOMAIN last.scores = {}
        /\ last.score_docs_calls = <<>>
        /\ last.created = 0

\* a whitespace-only text analysed with mfd2 and the pat method
C3_Witness ==
    /\ last.op = "analyze_text"
    /\ last.text = <<" ", " ">>
    /\ last.dict_type = "mfd2"
    /\ last.score_method = "pat"
    /\ last.outcome = "raise"

EmfdKeys ==
    {"care_p", "fairness_p", "loyalty_p", "authority_p", "sanctity_p",
     "care_sent", "fairness_sent", "loyalty_sent", "authority_sent", "sanctity_sent",
     "moral_nonmoral_ratio"}

\* C7: a record that analyze_text returns for a non-blank text analysed with
\* the eMFD dictionary has exactly the five {foundation}_p fields, the five
\* {foundation}_sent fields and moral_nonmoral_ratio, never fewer; and for a
\* non-blank text that UTF-8 can encode, with a known method and mapping,
\* analyze_text does return a record.
C7_EmfdRecordComplete ==
    (last.op = "analyze_text" /\ last.dict_type = "emfd" /\ ~IsBlank(last.text)) =>
        /\ last.outcome = "return" => DOMAIN last.scores = EmfdKeys
        /\ ((\A i \in 1..Len(last.text) : last.text[i] # "u")
                /\ last.score_method \in {"bow", "wordlist", "gdelt.ngrams", "pat"}
                /\ last.prob_map \in {"all", "single"})
              => last.outcome = "return"

\* a text with a quote and no lexicon word: a full record
C7_Witness ==
    /\ last.op = "analyze_text"
    /\ last.dict_type = "emfd"
    /\ last.text = <<"q", "n">>
    /\ last.outcome = "return"
    /\ DOMAIN last.scores = EmfdKeys

\* C7 as stated: for every non-blank text analysed with the eMFD dictionary
\* (known method and mapping), analyze_text returns a record with exactly
\* the five {foundation}_p fields, the five {foundation}_sent fields and
\* moral_nonmoral_ratio.
C7_AlwaysReturnsRecord ==
    (/\ last.op = "analyze_text"
     /\ last.dict_type = "emfd"
     /\ ~IsBlank(last.text)
     /\ last.score_method \in KnownMethods
     /\ last.prob_map \in KnownProbMaps) =>
        /\ last.outcome = "return"
        /\ DOMAIN last.scores = EmfdKeys

\* a non-blank text holding a lone surrogate: writing the temporary file
\* raises before the scorer is called, and the file is left behind
C7_SurrogateRaises ==
    /\ last.op = "analyze_text"
    /\ last.dict_type = "emfd"
    /\ last.score_method = "bow"
    /\ last.prob_map = "all"
    /\ last.text = <<"m", "u">>
    /\ last.outcome = "raise"
    /\ last.error.type = "UnicodeEncodeError"
    /\ last.score_docs_calls = <<>>
    /\ last.created = 1
    /\ last.deleted = 0

\* C8 as stated: under bag-of-words scoring moral_nonmoral_ratio is >= 0, is
\* computed without a division by zero, and is 0 exactly when no token of the
\* document matches the lexicon.
C8_RatioZeroIffNoMatch ==
    (last.op = "analyze_text" /\ last.score_method = "bow"
        /\ last.dict_type \in {"emfd", "mfd", "mfd2"} /\ ~IsBlank(last.text)
        /\ \A i \in 1..Len(last.text) : last.text[i] # "u") =>
        /\ last.outcome = "return"
        /\ last.scores[RatioKey].d > 0
        /\ last.scores[RatioKey].n >= 0
        /\ last.scores[RatioKey].n = 0
              <=> Len(matched_tokens(tokenize(last.text), "bow")) = 0

(***************************************************************************)
(* Files and extractors                                                    *)
(***************************************************************************)
MaxCustom == 2       \* at most MaxCustom calls of register_extractor
MaxBatch == 2        \* analyze_batch is called with at most MaxBatch paths

\* The files of the model.  ext is the path's suffix as written; utf8 tells
\* whether the bytes decode as UTF-8 (text) or only as latin-1 (latin1);
\* pdfplumber, pypdf2 and ocr are what each PDF strategy does on the file.
File(ext, exists, readable, utf8, text, latin1, pdfplumber, pypdf2, ocr) ==
    [ext |-> ext, exists |-> exists, readable |-> readable, utf8 |-> utf8,
     text |-> text, latin1 |-> latin1,
     pdfplumber |-> pdfplumber, pypdf2 |-> pypdf2, ocr |-> ocr]

Paths == {"a.txt", "b.TXT", "c.pdf", "d.dat", "e.txt", "f.text"}

FileSystem ==
    [p \in Paths |->
        CASE p = "a.txt"  -> File(".txt", TRUE, TRUE, TRUE, <<"m", " ", "n">>, <<>>,
                                  "raise", "raise", "raise")
          [] p = "b.TXT"  -> File(".TXT", TRUE, TRUE, FALSE, <<>>, <<" ", " ">>,
                                  "raise", "raise", "raise")
          [] p = "c.pdf"  -> File(".pdf", TRUE, TRUE, FALSE, <<"n", "q", "m">>, <<>>,
                                  "blank", "raise", "text")
          [] p = "d.dat"  -> File(".dat", TRUE, TRUE, TRUE, <<"m">>, <<>>,
                                  "raise", "raise", "raise")
          [] p = "e.txt"  -> File(".txt", FALSE, FALSE, FALSE, <<>>, <<>>,
                                  "raise", "raise", "raise")
          [] p = "f.text" -> File(".text", TRUE, FALSE, TRUE, <<"n">>, <<>>,
                                  "raise", "raise", "raise")]

\* str.lower() on the suffixes of the model
lower(ext) == IF ext = ".TXT" THEN ".txt" ELSE ext

\* extractors that a caller registers: the suffixes supports_file accepts and
\* what extract does
CustomExtractor(name, exts, result) ==
    [kind |-> "custom", name |-> name, exts |-> exts, result |-> result]
CustomExtractors ==
    {CustomExtractor("dat", {".dat"}, "text"),
     CustomExtractor("any", {".txt", ".text", ".pdf", ".dat"}, "text"),
     CustomExtractor("bad", {".dat", ".pdf"}, "raise")}
CustomText(e) == <<"n", " ", "m">>

supports_file(e, path) ==
    CASE e.kind = "txt" -> lower(FileSystem[path].ext) \in {".txt", ".text"}
      [] e.kind = "pdf" -> lower(FileSystem[path].ext) = ".pdf"
      [] OTHER -> lower(FileSystem[path].ext) \in e.exts

Extracted(text) == [ok |-> TRUE, text |-> text, error |-> NoError, attempts |-> <<>>]
Failed(type, msg) == [ok |-> FALSE, text |-> <<>>, error |-> Error(type, msg), attempts |-> <<>>]

\* TxtExtractor.extract: utf-8, then latin-1 (which decodes any bytes)
txt_extract(path) ==
    LET f == FileSystem[path]
    IN  IF ~f.readable THEN Failed("PermissionError", "Permission denied")
        ELSE IF f.utf8 THEN Extracted(f.text)
        ELSE Extracted(f.latin1)

\* one PDF strategy (lines 107-113, 116-122, 125-129): `what` is what the
\* library does on the file; the result is the value of `text` afterwards and
\* whether extract returns it at once
pdf_try(available, what, produced, text, attempts, name) ==
    IF ~available THEN [text |-> text, done |-> FALSE, attempts |-> attempts]
    ELSE IF what = "raise"
        THEN [text |-> text, done |-> FALSE, attempts |-> Append(attempts, name)]
    ELSE IF what = "blank"
        THEN [text |-> <<" ">>, done |-> FALSE, attempts |-> Append(attempts, name)]
    ELSE [text |-> produced, done |-> TRUE, attempts |-> Append(attempts, name)]

\* mutant: OCR is tried whether or not the extractor has use_ocr_fallback
pdf_extract_file_ocr_always(e, f, l, path) ==
    LET s1 == pdf_try(l.pdf, f.pdfplumber, f.text, <<>>, <<>>, "pdfplumber")
        s2 == IF s1.done THEN s1
              ELSE pdf_try(l.pypdf2, f.pypdf2, f.text, s1.text, s1.attempts, "pypdf2")
        s3 == IF s2.done THEN s2
              ELSE IF strip(s2.text) = <<>>
                  THEN [pdf_try(TRUE, f.ocr, f.text, s2.text, s2.attempts, "ocr")
                            EXCEPT !.done = FALSE]
                  ELSE s2
    IN  IF s3.done THEN [Extracted(s3.text) EXCEPT !.attempts = s3.attempts]
        ELSE IF strip(s3.text) = <<>>
            THEN [Failed("ValueError", "Unable to extract text from PDF: " \o path)
                      EXCEPT !.attempts = s3.attempts]
        ELSE [Extracted(s3.text) EXCEPT !.attempts = s3.attempts]

\* mutant: without the check of lines 131-132, whatever text is left is returned
pdf_extract_file_unchecked(e, f, l, path) ==
    LET s1 == pdf_try(l.pdf, f.pdfplumber, f.text, <<>>, <<>>, "pdfplumber")
        s2 == IF s1.done THEN s1
              ELSE pdf_try(l.pypdf2, f.pypdf2, f.text, s1.text, s1.attempts, "pypdf2")
        s3 == IF s2.done THEN s2
              ELSE IF e.use_ocr_fallback /\ strip(s2.text) = <<>>
                  THEN [pdf_try(TRUE, f.ocr, f.text, s2.text, s2.attempts, "ocr")
                            EXCEPT !.done = FALSE]
                  ELSE s2
    IN  [Extracted(s3.text) EXCEPT !.attempts = s3.attempts]

\* PDFExtractor.extract on a file f: pdfplumber, then PyPDF2, then OCR, then
\* the check of lines 131-134
pdf_extract_file(e, f, l, path) ==
    LET s1 == pdf_try(l.pdf, f.pdfplumber, f.text, <<>>, <<>>, "pdfplumber")
        s2 == IF s1.done THEN s1
              ELSE pdf_try(l.pypdf2, f.pypdf2, f.text, s1.text, s1.attempts, "pypdf2")
        s3 == IF s2.done THEN s2
              ELSE IF e.use_ocr_fallback /\ strip(s2.text) = <<>>
                  THEN [pdf_try(TRUE, f.ocr, f.text, s2.text, s2.attempts, "ocr")
                            EXCEPT !.done = FALSE]
                  ELSE s2
    IN  IF s3.done THEN [Extracted(s3.text) EXCEPT !.attempts = s3.attempts]
        ELSE IF strip(s3.text) = <<>>
            THEN [Failed("ValueError", "Unable to extract text from PDF: " \o path)
                      EXCEPT !.attempts = s3.attempts]
        ELSE [Extracted(s3.text) EXCEPT !.attempts = s3.attempts]

\* PDFExtractor.extract
pdf_extract(e, path, l) == pdf_extract_file(e, FileSystem[path], l, path)

extract(e, path, l) ==
    CASE e.kind = "txt" -> txt_extract(path)
      [] e.kind = "pdf" -> pdf_extract(e, path, l)
      [] OTHER -> IF e.result = "text" THEN Extracted(CustomText(e))
                  ELSE Failed("RuntimeError", "extractor failed")

\* get_metadata of the extractor classes ({} for the base class)
get_metadata(e, path) ==
    IF e.kind = "txt" /\ FileSystem[path].exists THEN [file_type |-> "text"]
    ELSE IF e.kind = "pdf" /\ FileSystem[path].exists THEN [file_type |-> "pdf"]
    ELSE NoKeys

Call(fn, idx, result) == [fn |-> fn, idx |-> idx, result |-> result]
Extraction(outcome, text, error, calls, by) ==
    [outcome |-> outcome, text |-> text, error |-> error, calls |-> calls, by |-> by]

\* mutant: the first extractor that supports the path decides (no `continue`)
RECURSIVE extract_loop_no_continue(_, _, _, _, _)
extract_loop_no_continue(es, l, path, i, calls) ==
    IF i > Len(es)
        THEN Extraction("raise", <<>>,
                        Error("ValueError", "No suitable extractor found for file: " \o path),
                        calls, 0)
    ELSE
        LET sup == supports_file(es[i], path)
            calls1 == Append(calls, Call("supports_file", i, sup))
        IN  IF ~sup THEN extract_loop_no_continue(es, l, path, i + 1, calls1)
            ELSE LET r == extract(es[i], path, l)
                     calls2 == Append(calls1, Call("extract", i, r.ok))
                 IN  IF r.ok THEN Extraction("return", r.text, NoError, calls2, i)
                     ELSE Extraction("raise", <<>>, r.error, calls2, 0)

extract_text_no_continue(es, l, path) ==
    IF ~FileSystem[path].exists
        THEN Extraction("raise", <<>>, Error("FileNotFoundError", "File not found: " \o path),
                        <<>>, 0)
    ELSE extract_loop_no_continue(es, l, path, 1, <<>>)

\* the loop of extract_text, lines 242-250
RECURSIVE extract_loop(_, _, _, _, _)
extract_loop(es, l, path, i, calls) ==
    IF i > Len(es)
        THEN Extraction("raise", <<>>,
                        Error("ValueError", "No suitable extractor found for file: " \o path),
                        calls, 0)
    ELSE
        LET sup == supports_file(es[i], path)
            calls1 == Append(calls, Call("supports_file", i, sup))
        IN  IF ~sup THEN extract_loop(es, l, path, i + 1, calls1)
            ELSE LET r == extract(es[i], path, l)
                     calls2 == Append(calls1, Call("extract", i, r.ok))
                 IN  IF r.ok THEN Extraction("return", r.text, NoError, calls2, i)
                     ELSE extract_loop(es, l, path, i + 1, calls2)

\* mutant: when no extractor produced text, empty text is returned
extract_text_no_raise(es, l, path) ==
    IF ~FileSystem[path].exists
        THEN Extraction("raise", <<>>, Error("FileNotFoundError", "File not found: " \o path),
                        <<>>, 0)
    ELSE Eval(LAMBDA r : IF r.outcome = "raise"
                             THEN Extraction("return", <<>>, NoError, r.calls, 0)
                             ELSE r,
              extract_loop(es, l, path, 1, <<>>))

\* TextExtractionManager.extract_text
extract_text(es, l, path) ==
    IF ~FileSystem[path].exists
        THEN Extraction("raise", <<>>, Error("FileNotFoundError", "File not found: " \o path),
                        <<>>, 0)
    ELSE extract_loop(es, l, path, 1, <<>>)

\* TextExtractionManager.get_file_metadata: the first extractor that supports
\* the path
RECURSIVE metadata_loop(_, _, _)
metadata_loop(es, path, i) ==
    IF i > Len(es) THEN [metadata |-> NoKeys, by |-> 0]
    ELSE IF supports_file(es[i], path)
        THEN [metadata |-> get_metadata(es[i], path), by |-> i]
    ELSE metadata_loop(es, path, i + 1)
get_file_metadata(es, path) == metadata_loop(es, path, 1)

(***************************************************************************)
(* analyze_file and analyze_batch                                          *)
(***************************************************************************)
Settings(dict_type, prob_map, score_method, output_metrics) ==
    [dict_type |-> dict_type, prob_map |-> prob_map, score_method |-> score_method,
     output_metrics |-> output_metrics]

\* the outcome of analyze_file: Outcome of analyze_text, with the result dict
\* metadata_calls counts the calls of get_file_metadata
FileOutcome(outcome, result, error, created, deleted, calls, extraction, metadata_by, metadata_calls) ==
    [outcome |-> outcome, result |-> result, error |-> error, created |-> created,
     deleted |-> deleted, score_docs_calls |-> calls, extraction |-> extraction,
     metadata_by |-> metadata_by, metadata_calls |-> metadata_calls]

\* lines 65-78, after analyze_text returned or raised a
file_result(path, st, x, md, a) ==
    IF a.outcome = "raise"
        THEN FileOutcome("raise", NoKeys, a.error, a.created, a.deleted,
                         a.score_docs_calls, x, md.by, 1)
    ELSE FileOutcome("return",
            [file_path |-> path,
             file_metadata |-> md.metadata,
             extracted_text |-> x.text,
             text_length |-> Len(x.text),
             word_count |-> Len(split(x.text)),
             moral_scores |-> a.scores,
             analysis_parameters |-> st],
            NoError, a.created, a.deleted, a.score_docs_calls, x, md.by, 1)

\* mutant: a failed extraction is not raised; a result without scores is
\* returned
analyze_extracted_swallow(es, path, st, x) ==
    IF x.outcome = "raise"
        THEN FileOutcome("return",
                [file_path |-> path, file_metadata |-> NoKeys, extracted_text |-> <<>>,
                 text_length |-> 0, word_count |-> 0, moral_scores |-> NoKeys,
                 analysis_parameters |-> st],
                NoError, 0, 0, <<>>, x, 0, 0)
    ELSE Eval(LAMBDA md :
                Eval(LAMBDA a : file_result(path, st, x, md, a),
                     analyze_text(x.text, st.dict_type, st.prob_map, st.score_method,
                                  st.output_metrics)),
              get_file_metadata(es, path))

\* lines 53-63, x being what extract_text returned or raised
analyze_extracted(es, path, st, x) ==
    IF x.outcome = "raise"
        THEN FileOutcome("raise", NoKeys, x.error, 0, 0, <<>>, x, 0, 0)
    ELSE Eval(LAMBDA md :
                Eval(LAMBDA a : file_result(path, st, x, md, a),
                     analyze_text(x.text, st.dict_type, st.prob_map, st.score_method,
                                  st.output_metrics)),
              get_file_metadata(es, path))

analyze_file(es, l, path, st) ==
    Eval(LAMBDA x : analyze_extracted(es, path, st, x), extract_text(es, l, path))

\* the entry appended for a path whose analysis raised e (lines 175-179)
ErrorEntry(path, e) == [file_path |-> path, error |-> e.msg, moral_scores |-> NoKeys]

BatchOutcome(results, created, deleted) ==
    [outcome |-> "return", results |-> results, created |-> created, deleted |-> deleted]

\* results.append(...) of lines 172 and 175-179, r being the outcome of
\* analyze_file for path
appended(acc, path, r) ==
    BatchOutcome(IF r.outcome = "return" THEN Append(acc.results, r.result)
                 ELSE Append(acc.results, ErrorEntry(path, r.error)),
                 acc.created + r.created, acc.deleted + r.deleted)

\* mutant: the batch stops at the first path that fails
RECURSIVE batch_loop_abort(_, _, _, _, _, _)
batch_loop_abort(es, l, file_paths, st, i, acc) ==
    IF i > Len(file_paths) THEN acc
    ELSE Eval(LAMBDA r :
                IF r.outcome = "return"
                    THEN Eval(LAMBDA acc1 : batch_loop_abort(es, l, file_paths, st, i + 1, acc1),
                              appended(acc, file_paths[i], r))
                    ELSE appended(acc, file_paths[i], r),
              analyze_file(es, l, file_paths[i], st))

analyze_batch_abort(es, l, file_paths, st) ==
    batch_loop_abort(es, l, file_paths, st, 1, BatchOutcome(<<>>, 0, 0))

\* mutant: a path that fails gets no entry
RECURSIVE batch_loop_skip(_, _, _, _, _, _)
batch_loop_skip(es, l, file_paths, st, i, acc) ==
    IF i > Len(file_paths) THEN acc
    ELSE Eval(LAMBDA r :
                Eval(LAMBDA acc1 : batch_loop_skip(es, l, file_paths, st, i + 1, acc1),
                     IF r.outcome = "return" THEN appended(acc, file_paths[i], r)
                     ELSE BatchOutcome(acc.results, acc.created + r.created,
                                       acc.deleted + r.deleted)),
              analyze_file(es, l, file_paths[i], st))

analyze_batch_skip(es, l, file_paths, st) ==
    batch_loop_skip(es, l, file_paths, st, 1, BatchOutcome(<<>>, 0, 0))

\* the loop of analyze_batch, lines 161-180
RECURSIVE batch_loop(_, _, _, _, _, _)
batch_loop(es, l, file_paths, st, i, acc) ==
    IF i > Len(file_paths) THEN acc
    ELSE Eval(LAMBDA r :
                Eval(LAMBDA acc1 : batch_loop(es, l, file_paths, st, i + 1, acc1),
                     appended(acc, file_paths[i], r)),
              analyze_file(es, l, file_paths[i], st))

analyze_batch(es, l, file_paths, st) ==
    batch_loop(es, l, file_paths, st, 1, BatchOutcome(<<>>, 0, 0))

(***************************************************************************)
(* Calls on an analyzer over the files of the model                        *)
(***************************************************************************)
LibChoices == [pdf : BOOLEAN, pypdf2 : BOOLEAN, ocr : BOOLEAN]

FileSettings ==
    {Settings("emfd", "all", "bow", "sentiment"),
     Settings("mfd2", "single", "wordlist", "vice-virtue"),
     Settings("emfd", "single", "tfidf", "sentiment")}

Init == \E l \in LibChoices : Construct(l)

RegisterExtractor ==
    /\ last.op = "idle"
    /\ Len(extractors) - Len(register_default_extractors(libs)) < MaxCustom
    /\ \E e \in CustomExtractors :
          /\ extractors' = Append(extractors, e)
          /\ last' = [op |-> "register_extractor", extractor |-> e, before |-> extractors]
    /\ UNCHANGED <<libs, tmpfiles>>

ExtractText ==
    /\ last.op = "idle"
    /\ \E path \in Paths :
          last' = [op |-> "extract_text", path |-> path]
                  @@ extract_text(extractors, libs, path)
    /\ UNCHANGED <<extractors, libs, tmpfiles>>

AnalyzeFile ==
    /\ last.op = "idle"
    /\ \E path \in Paths, st \in FileSettings :
          \E r \in {analyze_file(extractors, libs, path, st)} :
              /\ tmpfiles + r.created - r.deleted <= MaxTmp
              /\ tmpfiles' = tmpfiles + r.created - r.deleted
              /\ last' = [op |-> "analyze_file", path |-> path, settings |-> st] @@ r
    /\ UNCHANGED <<extractors, libs>>

AnalyzeBatch ==
    /\ last.op = "idle"
    /\ \E file_paths \in SeqsUpTo(Paths, MaxBatch), st \in FileSettings :
          \E r \in {analyze_batch(extractors, libs, file_paths, st)} :
              /\ tmpfiles + r.created - r.deleted <= MaxTmp
              /\ tmpfiles' = tmpfiles + r.created - r.deleted
              /\ last' = [op |-> "analyze_batch", file_paths |-> file_paths,
                          settings |-> st] @@ r
    /\ UNCHANGED <<extractors, libs>>

Next ==
    \/ RegisterExtractor
    \/ ExtractText
    \/ AnalyzeFile
    \/ AnalyzeBatch
    \/ Return
Spec == Init /\ [][Next]_vars

(***************************************************************************)
(* Properties of analyze_batch and extract_text                            *)
(***************************************************************************)
MfdKeys ==
    {"care.virtue", "fairness.virtue", "loyalty.virtue", "authority.virtue",
     "sanctity.virtue", "care.vice", "fairness.vice", "loyalty.vice",
     "authority.vice", "sanctity.vice", "moral_nonmoral_ratio"}

\* what analyze_file alone does for a path, in the state of the analyzer
Alone(path, st) == analyze_file(extractors, libs, path, st)

\* C1: analyze_batch returns one entry per path, in the order of the paths
\* (result[i].file_path = paths[i]); the entry of a path that could not be
\* analysed (analyze_file raises; in particular a path that does not exist)
\* has an 'error' field, every other entry has none and holds a score record
\* with all the fields of the dictionary type.
C1_BatchEntryPerPath ==
    last.op = "analyze_batch" =>
        /\ Len(last.results) = Len(last.file_paths)
        /\ \A i \in 1..Len(last.results) :
              LET entry == last.results[i]
                  path == last.file_paths[i]
              IN  /\ entry.file_path = path
                  /\ "error" \in DOMAIN entry
                        <=> Alone(path, last.settings).outcome = "raise"
                  /\ ~FileSystem[path].exists => "error" \in DOMAIN entry
                  /\ "error" \notin DOMAIN entry =>
                        DOMAIN entry.moral_scores =
                            (IF last.settings.dict_type = "emfd" THEN EmfdKeys ELSE MfdKeys)

\* a mixed list: a path that does not exist, then a file that is analysed
C1_Witness ==
    /\ last.op = "analyze_batch"
    /\ last.file_paths = <<"e.txt", "a.txt">>
    /\ last.settings.dict_type = "emfd"
    /\ "error" \in DOMAIN last.results[1]
    /\ "error" \notin DOMAIN last.results[2]
    /\ DOMAIN last.results[2].moral_scores = EmfdKeys

\* the entry that a path gets when it is analysed on its own
AloneEntry(path, st) ==
    IF Alone(path, st).outcome = "return" THEN Alone(path, st).result
    ELSE [file_path |-> path, error |-> Alone(path, st).error.msg, moral_scores |-> NoKeys]

\* C2: analyze_batch does not stop at a path that fails: every position i,
\* also after a failure, holds what analyze_file(paths[i]) alone gives (its
\* result, or an error entry with its error), whatever the other paths are.
C2_BatchItemIndependent ==
    last.op = "analyze_batch" =>
        /\ DOMAIN last.results = 1..Len(last.file_paths)
        /\ \A i \in 1..Len(last.file_paths) :
              /\ DOMAIN last.results[i] = DOMAIN AloneEntry(last.file_paths[i], last.settings)
              /\ \A k \in DOMAIN last.results[i] :
                    last.results[i][k] = AloneEntry(last.file_paths[i], last.settings)[k]

\* a file with blank text fails, and the file after it is analysed
C2_Witness ==
    /\ last.op = "analyze_batch"
    /\ last.file_paths = <<"b.TXT", "a.txt">>
    /\ last.settings.dict_type = "mfd2"
    /\ "error" \in DOMAIN last.results[1]
    /\ last.results[1].error = "Input text is empty"
    /\ "error" \notin DOMAIN last.results[2]
    /\ last.results[2].word_count = 2

\* the number of extractors that register_default_extractors registers
NumDefaults == IF libs.pdf \/ libs.pypdf2 THEN 2 ELSE 1

\* the first extractor that supports the path and extracts it (0: none)
FirstGood(path) ==
    LET good == {i \in 1..Len(extractors) :
                    /\ supports_file(extractors[i], path)
                    /\ extract(extractors[i], path, libs).ok}
    IN  IF good = {} THEN 0 ELSE CHOOSE i \in good : \A j \in good : i <= j

\* C10: the extractors are kept in registration order, the default plain-text
\* and PDF extractors first and each registered extractor after those before
\* it; extract_text on an existing path asks the extractors in that order
\* whether they support the path, calls extract on exactly those that do, stops
\* at the first whose extract succeeds and returns its text.
C10_RegistrationOrder ==
    /\ extractors[1].kind = "txt"
    /\ NumDefaults = 2 => extractors[2].kind = "pdf"
    /\ \A i \in 1..Len(extractors) : i > NumDefaults => extractors[i].kind = "custom"
    /\ last.op = "register_extractor" => extractors = Append(last.before, last.extractor)
    /\ (last.op = "extract_text" /\ FileSystem[last.path].exists) =>
          LET c == last.calls
              first == FirstGood(last.path)
              asked == SelectSeq(c, LAMBDA x : x.fn = "supports_file")
          IN  /\ Len(asked) = (IF first = 0 THEN Len(extractors) ELSE first)
              /\ \A k \in 1..Len(asked) :
                    /\ asked[k].idx = k
                    /\ asked[k].result = supports_file(extractors[k], last.path)
              /\ \A k \in 1..Len(c) :
                    /\ c[k].fn = "extract" =>
                          k > 1 /\ c[k - 1] = Call("supports_file", c[k].idx, TRUE)
                    /\ (c[k].fn = "supports_file" /\ c[k].result) =>
                          k < Len(c) /\ c[k + 1].fn = "extract" /\ c[k + 1].idx = c[k].idx
              /\ first > 0 =>
                    /\ last.outcome = "return"
                    /\ last.by = first
                    /\ last.text = extract(extractors[first], last.path, libs).text
                    /\ c[Len(c)] = Call("extract", first, TRUE)
              /\ first = 0 => last.outcome = "raise"

\* the plain-text extractor supports f.text and fails, the PDF extractor does
\* not support it, and a registered extractor extracts it
C10_Witness ==
    /\ last.op = "extract_text"
    /\ last.path = "f.text"
    /\ Len(extractors) = 3
    /\ last.outcome = "return"
    /\ last.by = 3
    /\ last.calls = <<Call("supports_file", 1, TRUE), Call("extract", 1, FALSE),
                      Call("supports_file", 2, FALSE),
                      Call("supports_file", 3, TRUE), Call("extract", 3, TRUE)>>

(***************************************************************************)
(* Properties of extract_text: when it fails                               *)
(***************************************************************************)
Supporting(es, path) == {i \in 1..Len(es) : supports_file(es[i], path)}
AllFail(es, l, path) == \A i \in Supporting(es, path) : ~extract(es[i], path, l).ok

\* C11: for an existing file extract_text raises the extraction error (the
\* code's ValueError "No suitable extractor found for file") exactly when no
\* registered extractor supports the path or every supporting extractor
\* fails; otherwise it returns the text of an extractor that succeeded, and
\* the error of a failing extractor is never the one the caller sees.
C11_ExtractionErrorIffAllFail ==
    (last.op = "extract_text" /\ FileSystem[last.path].exists) =>
        /\ last.outcome \in {"raise", "return"}
        /\ (last.outcome = "raise") <=> AllFail(extractors, libs, last.path)
        /\ last.outcome = "raise" =>
              last.error = Error("ValueError",
                                 "No suitable extractor found for file: " \o last.path)
        /\ last.outcome = "return" =>
              /\ last.by \in Supporting(extractors, last.path)
              /\ extract(extractors[last.by], last.path, libs).ok
              /\ last.text = extract(extractors[last.by], last.path, libs).text

\* a supporting extractor failed and a later one returned the text
C11_Witness ==
    /\ last.op = "extract_text"
    /\ FileSystem[last.path].exists
    /\ last.outcome = "return"
    /\ \E k \in 1..Len(last.calls) : last.calls[k].fn = "extract" /\ ~last.calls[k].result

\* every supporting extractor failed: the extraction error
C11_WitnessAllFail ==
    /\ last.op = "extract_text"
    /\ FileSystem[last.path].exists
    /\ last.outcome = "raise"
    /\ Cardinality(Supporting(extractors, last.path)) >= 2

(***************************************************************************)
(* PDFExtractor.extract over every outcome of the three strategies         *)
(***************************************************************************)
\* what a strategy does on a file: raises, returns blank or non-blank text
PdfOutcomes == {"raise", "blank", "text"}
PdfTexts == {<<"m">>, <<" ", "n">>}
PdfFiles ==
    {File(".pdf", TRUE, TRUE, FALSE, t, <<>>, a, b, c) :
        t \in PdfTexts, a \in PdfOutcomes, b \in PdfOutcomes, c \in PdfOutcomes}

\* PDFExtractor(use_ocr_fallback): the constructor raises when neither
\* pdfplumber nor PyPDF2 can be imported
InitPdf ==
    \E l \in LibChoices, use_ocr_fallback \in BOOLEAN :
        /\ l.pdf \/ l.pypdf2
        /\ libs = l
        /\ extractors = <<PDFExtractor(l, use_ocr_fallback)>>
        /\ tmpfiles = 0
        /\ last = Idle @@ [configured |-> use_ocr_fallback]

PdfExtract ==
    /\ last.op = "idle"
    /\ \E f \in PdfFiles :
          \E r \in {pdf_extract_file(extractors[1], f, libs, "c.pdf")} :
              last' = [op |-> "pdf_extract", file |-> f, configured |-> last.configured] @@ r
    /\ UNCHANGED <<extractors, libs, tmpfiles>>

PdfReturn ==
    /\ last.op = "pdf_extract"
    /\ last' = Idle @@ [configured |-> last.configured]
    /\ UNCHANGED <<extractors, libs, tmpfiles>>

NextPdf ==
    \/ PdfExtract
    \/ PdfReturn
SpecPdf == InitPdf /\ [][NextPdf]_vars

\* the position of a strategy in the attempts of a call, 0 when not attempted
Attempt(name) ==
    IF \E k \in 1..Len(last.attempts) : last.attempts[k] = name
        THEN CHOOSE k \in 1..Len(last.attempts) : last.attempts[k] = name
        ELSE 0
Tried(name) == Attempt(name) # 0
\* the strategy was attempted and gave non-blank text
Yielded(name) ==
    /\ Tried(name)
    /\ CASE name = "pdfplumber" -> last.file.pdfplumber = "text"
          [] name = "pypdf2" -> last.file.pypdf2 = "text"
          [] OTHER -> last.file.ocr = "text"
Strategies == <<"pdfplumber", "pypdf2", "ocr">>

\* C12: PDFExtractor.extract attempts its strategies in the order
\* pdfplumber, PyPDF2, OCR, each at most once; PyPDF2 only if pdfplumber was
\* unavailable, raised or gave blank text; OCR only if OCR fallback is
\* configured and available and neither earlier strategy gave non-blank
\* text; and a strategy that gives non-blank text is the last one attempted.
C12_PdfStrategyOrder ==
    last.op = "pdf_extract" =>
        /\ Len(last.attempts) <= 3
        /\ \A j, k \in 1..3 :
              (j < k /\ Tried(Strategies[j]) /\ Tried(Strategies[k]))
                  => Attempt(Strategies[j]) < Attempt(Strategies[k])
        /\ \A k \in 1..Len(last.attempts) :
              /\ \E j \in 1..3 : last.attempts[k] = Strategies[j]
              /\ \A k2 \in 1..Len(last.attempts) :
                    last.attempts[k] = last.attempts[k2] => k = k2
        /\ libs.pdf => Attempt("pdfplumber") = 1
        /\ Tried("pdfplumber") => libs.pdf
        /\ Tried("pypdf2") =>
              /\ libs.pypdf2
              /\ ~libs.pdf \/ last.file.pdfplumber \in {"raise", "blank"}
        /\ Tried("ocr") =>
              /\ last.configured /\ libs.ocr
              /\ ~Yielded("pdfplumber") /\ ~Yielded("pypdf2")
        /\ \A j \in 1..3 :
              Yielded(Strategies[j]) => Attempt(Strategies[j]) = Len(last.attempts)

\* all three strategies attempted in order, OCR as the last resort
C12_Witness ==
    /\ last.op = "pdf_extract"
    /\ last.attempts = Strategies
    /\ last.file.pdfplumber = "blank"
    /\ last.file.pypdf2 = "raise"

\* OCR available but not configured: it is not attempted
C12_WitnessNotConfigured ==
    /\ last.op = "pdf_extract"
    /\ ~last.configured /\ libs.ocr
    /\ last.attempts = <<"pdfplumber", "pypdf2">>
    /\ ~last.ok

\* C20: PDFExtractor.extract never returns blank text: for every combination
\* of available libraries, OCR configuration and outcome of each strategy, it
\* either returns text with at least one non-whitespace character or raises;
\* blank text left by an earlier strategy is not returned when a later
\* strategy raises.
C20_PdfNeverBlank ==
    last.op = "pdf_extract" =>
        /\ last.ok => ~IsBlank(last.text) /\ strip(last.text) # <<>>
        /\ ~last.ok => last.error.type = "ValueError"

\* an earlier strategy gave blank text and every later one raised: an error
C20_Witness ==
    /\ last.op = "pdf_extract"
    /\ last.attempts = Strategies
    /\ last.file.pdfplumber = "blank"
    /\ last.file.pypdf2 = "raise"
    /\ last.file.ocr = "raise"
    /\ ~last.ok

(***************************************************************************)
(* Properties of analyze_file                                              *)
(***************************************************************************)
\* C13: analyze_file surfaces errors to its caller: when extract_text fails
\* (missing file, no extractor, every extractor fails) analyze_file raises
\* that very error, returns no result, and calls neither get_file_metadata
\* nor the scorer; when the extracted text is blank it raises the empty-input
\* error of analyze_text and returns no result.
C13_FileErrorsSurface ==
    last.op = "analyze_file" =>
        /\ last.extraction = extract_text(extractors, libs, last.path)
        /\ last.extraction.outcome = "raise" =>
              /\ last.outcome = "raise"
              /\ last.error = last.extraction.error
              /\ last.result = NoKeys
              /\ last.metadata_calls = 0
              /\ last.score_docs_calls = <<>>
              /\ last.created = 0
        /\ (last.extraction.outcome = "return" /\ IsBlank(last.extraction.text)) =>
              /\ last.outcome = "raise"
              /\ last.error = EmptyInput.error
              /\ last.result = NoKeys
              /\ last.score_docs_calls = <<>>

\* every supporting extractor failed on an existing file
C13_Witness ==
    /\ last.op = "analyze_file"
    /\ FileSystem[last.path].exists
    /\ last.extraction.outcome = "raise"
    /\ \E k \in 1..Len(last.extraction.calls) : last.extraction.calls[k].fn = "extract"
    /\ last.outcome = "raise"

\* the file was read and its text is blank
C13_WitnessBlank ==
    /\ last.op = "analyze_file"
    /\ last.extraction.outcome = "return"
    /\ IsBlank(last.extraction.text)
    /\ last.metadata_calls = 1
    /\ last.outcome = "raise"

\* the file does not exist
C13_WitnessMissing ==
    /\ last.op = "analyze_file"
    /\ ~FileSystem[last.path].exists
    /\ last.outcome = "raise"
    /\ last.error.type = "FileNotFoundError"

(***************************************************************************)
(* Properties of analyze_text: what reaches the scorer                     *)
(***************************************************************************)
\* C14: prob_map and output_metrics apply to eMFD only.  For dict_type mfd
\* or mfd2 every call of the scorer has prob_map = "" and output_metrics = "",
\* and analyze_text on the same text, dict_type and method with any other
\* prob_map and output_metrics calls the scorer identically and has the same
\* outcome and record; for dict_type emfd the caller's prob_map and
\* output_metrics are the ones passed to the scorer.
C14_MappingEmfdOnly ==
    last.op = "analyze_text" =>
        /\ last.dict_type \in {"mfd", "mfd2"} =>
              /\ \A k \in 1..Len(last.score_docs_calls) :
                    /\ last.score_docs_calls[k].prob_map = ""
                    /\ last.score_docs_calls[k].output_metrics = ""
              /\ \A pm \in ProbMaps, om \in OutputMetrics :
                    \E r \in {analyze_text(last.text, last.dict_type, pm,
                                            last.score_method, om)} :
                        /\ r.score_docs_calls = last.score_docs_calls
                        /\ r.outcome = last.outcome
                        /\ r.scores = last.scores
                        /\ r.error = last.error
        /\ last.dict_type = "emfd" =>
              \A k \in 1..Len(last.score_docs_calls) :
                    /\ last.score_docs_calls[k].prob_map = last.prob_map
                    /\ last.score_docs_calls[k].output_metrics = last.output_metrics

\* an mfd2 call with a mapping and metrics set by the caller: the scorer got
\* neither
C14_Witness ==
    /\ last.op = "analyze_text"
    /\ last.dict_type = "mfd2"
    /\ last.prob_map = "single"
    /\ last.output_metrics = "vice-virtue"
    /\ last.outcome = "return"
    /\ Len(last.score_docs_calls) = 1
    /\ last.score_docs_calls[1].prob_map = ""

\* an emfd call: the scorer got the caller's mapping and metrics
C14_WitnessEmfd ==
    /\ last.op = "analyze_text"
    /\ last.dict_type = "emfd"
    /\ last.prob_map = "single"
    /\ Len(last.score_docs_calls) = 1
    /\ last.score_docs_calls[1].prob_map = "single"
    /\ last.score_docs_calls[1].output_metrics = last.output_metrics

(***************************************************************************)
(* Analysis followed by summaries, on one analyzer                         *)
(***************************************************************************)
\* mutant: the summary takes moral_nonmoral_ratio out of the record
\* (scores.pop)
summarize_popping(scores, dict_type) ==
    [summary |-> get_moral_summary(scores, dict_type),
     scores |-> [k \in DOMAIN scores \ {RatioKey} |-> scores[k]]]

\* a call of get_moral_summary: the summary it returns and the caller's
\* record after the call; lines 182-263 read scores with `in` and [] only
summarize(scores, dict_type) ==
    [summary |-> get_moral_summary(scores, dict_type), scores |-> scores]

FrameTexts == {<<"m">>, <<" ">>, <<"n", "q">>}

\* analyze_text called directly on the analyzer
AnalyzeTextDirect ==
    /\ last.op = "idle"
    /\ \E text \in FrameTexts, st \in FileSettings :
          \E r \in {analyze_text(text, st.dict_type, st.prob_map, st.score_method,
                                  st.output_metrics)} :
              /\ tmpfiles + r.created - r.deleted <= MaxTmp
              /\ tmpfiles' = tmpfiles + r.created - r.deleted
              /\ last' = [op |-> "analyze_text", text |-> text, dict_type |-> st.dict_type,
                          prob_map |-> st.prob_map, score_method |-> st.score_method,
                          output_metrics |-> st.output_metrics] @@ r
    /\ UNCHANGED <<extractors, libs>>

\* the records a caller holds after the last call
HeldRecords ==
    IF last.op = "analyze_text" /\ last.outcome = "return" THEN {last.scores}
    ELSE IF last.op = "analyze_file" /\ last.outcome = "return"
        THEN {last.result.moral_scores}
    ELSE IF last.op = "analyze_batch"
        THEN {last.results[i].moral_scores : i \in 1..Len(last.results)}
    ELSE {}

\* summary = get_moral_summary(scores, dict_type), called twice on the record
\* the caller holds, as the demos do with result['moral_scores']
Summarize ==
    /\ \E scores \in HeldRecords, dict_type \in {"emfd", "mfd2"} :
          \E first \in {summarize(scores, dict_type)} :
              \E second \in {summarize(first.scores, dict_type)} :
                  last' = [op |-> "get_moral_summary", scores |-> scores,
                           dict_type |-> dict_type, outcome |-> "return",
                           summary |-> first.summary, scores_after |-> first.scores,
                           summary_again |-> second.summary]
    /\ UNCHANGED <<extractors, libs, tmpfiles>>

NextFrame ==
    \/ RegisterExtractor
    \/ AnalyzeTextDirect
    \/ AnalyzeFile
    \/ AnalyzeBatch
    \/ Summarize
    \/ Return
SpecFrame == Init /\ [][NextFrame]_vars

Analysis == {"analyze_text", "analyze_file", "analyze_batch", "get_moral_summary"}

SignLabel(x) == IF x.n > 0 THEN "positive" ELSE IF x.n < 0 THEN "negative" ELSE "neutral"

\* C16: in an eMFD summary the sentiment_direction of every foundation is
\* given by the sign of that foundation's {foundation}_sent field alone
\* (positive when > 0, negative when < 0, neutral exactly when 0), and its
\* strength is the strength band of that same foundation's {foundation}_p
\* field; the reported sentiment and probability are those fields.
C16_LabelsPerFoundation ==
    (last.op = "get_moral_summary" /\ last.dict_type = "emfd") =>
        \A f \in FoundationSet :
            /\ SentKey(f) \in DOMAIN last.scores =>
                  /\ last.summary.moral_foundations[f].sentiment = last.scores[SentKey(f)]
                  /\ last.summary.moral_foundations[f].sentiment_direction
                        = SignLabel(last.scores[SentKey(f)])
                  /\ (last.summary.moral_foundations[f].sentiment_direction = "neutral")
                        <=> last.scores[SentKey(f)].n = 0
            /\ ProbKey(f) \in DOMAIN last.scores =>
                  /\ last.summary.moral_foundations[f].probability = last.scores[ProbKey(f)]
                  /\ InStrengthBand(last.scores[ProbKey(f)],
                                    last.summary.moral_foundations[f].strength)

\* a record whose foundations differ in sign of sentiment and in band of
\* probability
C16_Witness ==
    /\ last.op = "get_moral_summary"
    /\ last.dict_type = "emfd"
    /\ DOMAIN last.scores = EmfdKeys
    /\ last.summary.moral_foundations["care"].sentiment_direction = "negative"
    /\ last.summary.moral_foundations["fairness"].sentiment_direction = "positive"
    /\ last.summary.moral_foundations["loyalty"].sentiment_direction = "neutral"
    /\ last.summary.moral_foundations["loyalty"].strength = "high"
    /\ last.summary.moral_foundations["care"].strength = "low"

(***************************************************************************)
(* Properties of analyze_text: the temporary file                          *)
(***************************************************************************)
\* C17 as stated: analyze_text leaks no temporary file: every temporary file
\* a call created has been deleted when the call finishes, whether it
\* returned or raised (also when writing the text into the file failed), no
\* file is left on disk, and a call rejected for blank text creates none.
C17_NoTempFileLeak ==
    /\ tmpfiles = 0
    /\ last.op = "analyze_text" =>
          /\ last.deleted = last.created
          /\ IsBlank(last.text) => last.created = 0

\* writing the text into the file failed: the file was created and is still
\* there after the call
C17_LeakOnWriteFailure ==
    /\ last.op = "analyze_text"
    /\ ~IsBlank(last.text)
    /\ ~encodable(last.text)
    /\ last.outcome = "raise"
    /\ last.created = 1
    /\ last.deleted = 0
    /\ tmpfiles = 1

\* on the paths through the try block the file is deleted: after the scorer
\* returned and after it raised
C17_DeletedAfterScorer ==
    (last.op = "analyze_text" /\ Len(last.score_docs_calls) > 0) =>
        last.created = 1 /\ last.deleted = 1

(***************************************************************************)
(* Properties of analyze_file: text and metadata                           *)
(***************************************************************************)
\* C18 as stated: in every result of analyze_file the file_metadata comes
\* from the same registered extractor as the extracted_text, also when
\* several extractors support the path and an earlier one fails.
C18_MetadataBySameExtractor ==
    (last.op = "analyze_file" /\ last.outcome = "return") =>
        /\ last.metadata_by = last.extraction.by
        /\ last.result.file_metadata
              = get_metadata(extractors[last.extraction.by], last.path)

\* PDFExtractor supports the path and fails, a registered extractor gives the
\* text: the metadata in the result is PDFExtractor's
C18_MetadataOfFailedExtractor ==
    /\ last.op = "analyze_file"
    /\ last.outcome = "return"
    /\ extractors[last.metadata_by].kind = "pdf"
    /\ extractors[last.extraction.by].kind = "custom"
    /\ last.result.extracted_text = CustomText(extractors[last.extraction.by])
    /\ last.result.file_metadata = [file_type |-> "pdf"]
    /\ get_metadata(extractors[last.extraction.by], last.path) = NoKeys

\* what the code does: the metadata is that of the first extractor that
\* supports the path, the text that of the first one whose extract succeeds
C18_MetadataByFirstSupporting ==
    (last.op = "analyze_file" /\ last.outcome = "return") =>
        /\ last.metadata_by \in Supporting(extractors, last.path)
        /\ \A i \in Supporting(extractors, last.path) : last.metadata_by <= i
        /\ last.metadata_by <= last.extraction.by

(***************************************************************************)
(* Properties of the summaries of batch entries                            *)
(***************************************************************************)
DefaultSettings == Settings("emfd", "all", "bow", "sentiment")
HasProbKey(scores) == \E f \in FoundationSet : ProbKey(f) \in DOMAIN scores

\* C19: for every entry without 'error' that analyze_batch produces with the
\* default eMFD settings, get_moral_summary(entry['moral_scores']) has a
\* 'dominant_foundation' and a 'moral_density' entry; and an eMFD summary
\* has 'dominant_foundation' if and only if the record has at least one
\* {foundation}_p key.
C19_SummaryIndexable ==
    /\ (last.op = "analyze_batch" /\ last.settings = DefaultSettings) =>
          \A i \in 1..Len(last.results) :
              "error" \notin DOMAIN last.results[i] =>
                  \E s \in {get_moral_summary(last.results[i].moral_scores, "emfd")} :
                      /\ "dominant_foundation" \in DOMAIN s
                      /\ "name" \in DOMAIN s.dominant_foundation
                      /\ "moral_density" \in DOMAIN s
    /\ (last.op = "get_moral_summary" /\ last.dict_type = "emfd") =>
          ("dominant_foundation" \in DOMAIN last.summary <=> HasProbKey(last.scores))

\* a batch with a failing and a succeeding path: the entry of the second has
\* a summary with a dominant foundation
C19_Witness ==
    /\ last.op = "analyze_batch"
    /\ last.settings = DefaultSettings
    /\ Len(last.results) = 2
    /\ "error" \in DOMAIN last.results[1]
    /\ "error" \notin DOMAIN last.results[2]
    /\ "dominant_foundation"
          \in DOMAIN get_moral_summary(last.results[2].moral_scores, "emfd")

\* the summary of the empty record of an error entry has no dominant
\* foundation
C19_WitnessNoProbKey ==
    /\ last.op = "get_moral_summary"
    /\ last.dict_type = "emfd"
    /\ last.scores = NoKeys
    /\ "dominant_foundation" \notin DOMAIN last.summary

====
